---- MODULE Spec2Model ----
(***************************************************************************)
(* Model of import_products_from_excel.py: a thread pool of workers, each  *)
(* with a thread-local OdooClient + ProductImporter, upserts the rows of a *)
(* spreadsheet into product.template over XML-RPC; main reports the        *)
(* results in row order and tallies them.                                  *)
(*                                                                         *)
(* Strings are sequences of one-character strings.  A remote call is one   *)
(* atomic step of the worker that issues it: it returns or it raises.  A   *)
(* worker whose pc names a remote call is blocked in that call.            *)
(***************************************************************************)
EXTENDS Integers, Sequences, FiniteSets, TLC

(* ------------------------------ bounds -------------------------------- *)

\* Largest number of rows of a batch.
MaxRows == 2

\* Largest --workers value.
MaxWorkers == 2

\* Largest number of remote calls that fail (raise, or reject the
\* credentials) in a run.
MaxFaults == 1

\* Largest number of product.category and of ir.model.data records when the
\* resolver is checked against every content of the two tables.
MaxCategories == 2
MaxRegistry == 2

(* --------------------------- cells, strings --------------------------- *)

\* A blank spreadsheet cell (pandas NaN) and a column the sheet lacks
\* (row.get gives None).
NaN == <<"<nan>">>
None == <<"<none>">>

Digits == {"0", "1", "2"}

DigitVal(c) == CASE c = "0" -> 0 [] c = "1" -> 1 [] c = "2" -> 2 [] OTHER -> 0

RECURSIVE LStrip(_)
LStrip(s) == IF s # <<>> /\ Head(s) = " " THEN LStrip(Tail(s)) ELSE s

RECURSIVE RStrip(_)
RStrip(s) ==
    IF s # <<>> /\ s[Len(s)] = " " THEN RStrip(SubSeq(s, 1, Len(s) - 1)) ELSE s

\* str.strip()
Strip(s) == RStrip(LStrip(s))

\* _safe_str: NaN and None give "", anything else str(v).strip().
_safe_str(v) == IF v = NaN \/ v = None THEN <<>> ELSE Strip(v)

\* The character SUPERSCRIPT TWO (U+00B2): a digit for str.isdigit(), not
\* a decimal for int().
SuperscriptTwo == "^2"

\* str.isdigit(): non-empty and every character a digit, the decimal ones
\* and the others.
IsDigit(s) == s # <<>> /\ \A k \in 1..Len(s) : s[k] \in Digits \cup {SuperscriptTwo}

\* int(value) raises ValueError: a character of the string is no decimal.
IntRaises(s) == \E k \in 1..Len(s) : s[k] \notin Digits

\* int(value) of a string of digits.
RECURSIVE IntOf(_)
IntOf(s) ==
    IF s = <<>> THEN 0 ELSE 10 * IntOf(SubSeq(s, 1, Len(s) - 1)) + DigitVal(s[Len(s)])

\* "." in value
HasDot(s) == \E k \in 1..Len(s) : s[k] = "."

FirstDot(s) == CHOOSE k \in 1..Len(s) : s[k] = "." /\ \A j \in 1..(k - 1) : s[j] # "."

\* value.split(".", 1)
SplitModule(s) == SubSeq(s, 1, FirstDot(s) - 1)
SplitName(s) == SubSeq(s, FirstDot(s) + 1, Len(s))

\* Python's True and False in a cell.
PyTrue == <<"<True>">>
PyFalse == <<"<False>">>

\* str.lower() on the letters of the model.
LowerChar(c) == CASE c = "S" -> "s" [] c = "I" -> "i" [] c = "N" -> "n" [] OTHER -> c

Lower(s) == [k \in 1..Len(s) |-> LowerChar(s[k])]

\* The strings _to_bool takes for true ("i'" is the letter i with an
\* acute accent).
TrueWords ==
    { <<"1">>, <<"t", "r", "u", "e">>, <<"t">>, <<"s", "i">>, <<"s", "i'">>,
      <<"y", "e", "s">>, <<"y">>, <<"x">>, <<"s">> }

\* _to_bool: None is False, a bool is itself, anything else is true when
\* str(v).strip().lower() is one of the words; str(NaN) is "nan".
_to_bool(v) ==
    IF v = None THEN FALSE
    ELSE IF v = PyTrue THEN TRUE
    ELSE IF v = PyFalse THEN FALSE
    ELSE IF v = NaN THEN FALSE
    ELSE Lower(Strip(v)) \in TrueWords

\* A float: not-a-number, or a number of tenths.
FloatNaN == [nan |-> TRUE, tenths |-> 0]
Float(t) == [nan |-> FALSE, tenths |-> t]

\* bool(x) of a float: 0.0 is false, every other float, NaN too, is true.
FloatTruth(x) == x.nan \/ x.tenths # 0

\* str(v).replace(",", ".")
CommaToDot(s) == [k \in 1..Len(s) |-> IF s[k] = "," THEN "." ELSE s[k]]

IsDecimal(s) == s # <<>> /\ \A k \in 1..Len(s) : s[k] \in Digits

\* float(s) of the strings a price cell of the model holds: digits with at
\* most one digit after a point, "nan", blanks around; anything else
\* raises ValueError, for which _to_float gives 0.0.
_to_float(v) ==
    IF v = None \/ v = <<>> THEN Float(0)
    ELSE IF v = NaN THEN FloatNaN
    ELSE LET t == Strip(CommaToDot(v))
         IN IF Lower(t) = <<"n", "a", "n">> THEN FloatNaN
            ELSE IF IsDecimal(t) THEN Float(10 * IntOf(t))
            ELSE IF /\ HasDot(t)
                    /\ IsDecimal(SplitModule(t))
                    /\ IsDecimal(SplitName(t))
                    /\ Len(SplitName(t)) = 1
            THEN Float(10 * IntOf(SplitModule(t)) + IntOf(SplitName(t)))
            ELSE Float(0)

(* ---------------------------- remote store --------------------------- *)

CategoryModel == <<"c", "a", "t">>
OtherModel == <<"p", "a", "r">>

Min(a, b) == IF a < b THEN a ELSE b

\* The remote "search": the ids of the records that pass the domain (hits,
\* in table order), cut to the limit (0: no limit).
RemoteSearch(hits, limit) ==
    LET ids == [k \in 1..Len(hits) |-> hits[k].id]
    IN IF limit = 0 THEN ids ELSE SubSeq(ids, 1, Min(limit, Len(ids)))

\* The records of a table with the given ids: the remote "read".
RemoteRead(table, ids) ==
    SelectSeq(table, LAMBDA r : \E k \in 1..Len(ids) : ids[k] = r.id)

\* The fields of a product.template record that import_row sets, and the
\* value the remote gives a field that a create leaves out.
FlagFields == {"available_in_pos", "purchase_ok", "sale_ok", "is_storable"}

PriceFields == {"list_price", "standard_price"}

TextFields == {"name", "default_code", "barcode", "supplier_code", "brand"}

ProductFields == TextFields \cup PriceFields \cup FlagFields \cup {"categ_id"}

FieldDefault(f) ==
    IF f = "categ_id" THEN 0
    ELSE IF f \in PriceFields THEN Float(0)
    ELSE IF f \in FlagFields THEN FALSE
    ELSE <<>>

\* A record of product.template with the given values.
StoredProduct(vals) ==
    [f \in ProductFields |-> IF f \in DOMAIN vals THEN vals[f] ELSE FieldDefault(f)]

\* The remote "create": a new record with the next id.
RemoteCreate(table, vals) ==
    Append(table,
           [f \in ProductFields \cup {"id"} |->
               IF f = "id" THEN Len(table) + 1 ELSE StoredProduct(vals)[f]])

\* The remote "write": the keys of vals replace the fields of the records
\* with the given ids; the other fields keep their values.
RemoteWrite(table, ids, vals) ==
    [k \in 1..Len(table) |->
        IF \E j \in 1..Len(ids) : ids[j] = table[k].id
        THEN [f \in DOMAIN table[k] |->
                 IF f \in DOMAIN vals THEN vals[f] ELSE table[k][f]]
        ELSE table[k]]

(* ------------------------------- state -------------------------------- *)

VARIABLES
    rows,        \* records = df.to_dict("records"): the batch, row 0 first
    dry_run,     \* args.dry_run
    max_workers, \* args.workers
    categories,  \* remote table product.category
    registry,    \* remote table ir.model.data
    products,    \* remote table product.template
    phase,       \* where main is: "start", "pool", "done", "exit"
    run,         \* 1: the first run of the batch, 2: its re-run
    next_task,   \* index of the first task no worker has taken yet
    wk,          \* per worker thread: pc, row index, locals of import_row
    importer,    \* _thread_local.importer per storage slot (NoClient: not set)
    clients,     \* clients[w]: how many clients thread w has constructed
    results,     \* results[i + 1]: what worker_task returned for row i
    reported,    \* the row_index of each result the loop of main printed
    ok_count,
    err_count,
    calls,       \* calls[i + 1]: the remote calls issued for row i, in order
    first_run    \* in the re-run: what the first run reported for each row

vars ==
    <<rows, dry_run, max_workers, categories, registry, products, phase, run,
      next_task, wk, importer, clients, results, reported, ok_count, err_count,
      calls, first_run>>

total == Len(rows)

Workers == 1..max_workers

\* No result yet: the future of the row is not done.
Pending == [index |-> -1, ok |-> FALSE, kind |-> "pending", ident |-> <<>>, cause |-> "none"]

\* A client/importer pair is known by the thread that constructed it and
\* by how many that thread had constructed.
NoClient == [by |-> 0, n |-> 0]

IdleWorker ==
    [pc |-> "idle", idx |-> -1, client |-> NoClient, categ_id |-> 0, ids |-> <<>>]

(* ------------------------- rows and their cells ------------------------ *)

\* The columns of the sheet besides the code, the name and the two
\* category columns.
OtherColumns ==
    {"supplier_code", "standard_price", "brand", "barcode", "list_price",
     "available_in_pos", "purchase_ok", "sale_ok", "is_storable"}

\* A row of a sheet that has the code, the name and the category columns
\* only: row.get gives None for the others.
MkRow(code, name, cat1, cat2) ==
    [c \in {"default_code", "name", "cat1", "cat2"} \cup OtherColumns |->
        CASE c = "default_code" -> code
          [] c = "name" -> name
          [] c = "cat1" -> cat1
          [] c = "cat2" -> cat2
          [] OTHER -> None]

\* row.get("default_code"), row.get("name") through _safe_str
DefaultCode(row) == _safe_str(row.default_code)
RowName(row) == _safe_str(row.name)

\* default_code or name
Ident(row) == IF DefaultCode(row) # <<>> THEN DefaultCode(row) ELSE RowName(row)

\* dc or name or '(sin identificador)'
ErrIdent(row) == IF Ident(row) # <<>> THEN Ident(row) ELSE <<"?">>

\* The category token: column "categ_id/id" when the sheet has it, else
\* column "categoria de producto / external id".
CategoryValue(row) ==
    IF row.cat1 # None THEN _safe_str(row.cat1) ELSE _safe_str(row.cat2)

\* barcode = _safe_str(row.get("barcode")), "" when it is "nan" in any case
Barcode(row) ==
    IF Lower(_safe_str(row.barcode)) = <<"n", "a", "n">> THEN <<>>
    ELSE _safe_str(row.barcode)

\* The value import_row computes for a field of vals.
FieldValue(row, categ_id, f) ==
    CASE f = "name" -> RowName(row)
      [] f = "default_code" -> DefaultCode(row)
      [] f = "barcode" -> Barcode(row)
      [] f = "supplier_code" -> _safe_str(row.supplier_code)
      [] f = "brand" -> _safe_str(row.brand)
      [] f \in PriceFields -> _to_float(row[f])
      [] f \in FlagFields -> _to_bool(row[f])
      [] f = "categ_id" -> categ_id

\* Whether import_row puts the key in vals: a text when it is not "", a
\* price when it is true as a bool, a flag always, the category when
\* ensure_category gave one.
HasKey(row, categ_id, f) ==
    CASE f \in TextFields -> FieldValue(row, categ_id, f) # <<>>
      [] f \in PriceFields -> FloatTruth(FieldValue(row, categ_id, f))
      [] f \in FlagFields -> TRUE
      [] f = "categ_id" -> categ_id # 0

\* vals as import_row builds it.
BuildVals(row, categ_id) ==
    [f \in { g \in ProductFields : HasKey(row, categ_id, g) } |->
        FieldValue(row, categ_id, f)]

\* An import_row without the check.
NeverUnidentified(row) == FALSE

\* if not name and not default_code: return "(sin nombre ni código)"
Unidentified(row) == RowName(row) = <<>> /\ DefaultCode(row) = <<>>

\* A lookup that is always by name.
NameKeyOnly(row) == "name"

\* The natural key: exact code when there is one, else exact name.
NaturalKeyField(row) == IF DefaultCode(row) # <<>> THEN "default_code" ELSE "name"

(* -------------------------- ensure_category --------------------------- *)

\* A read whose res_id is never used.
BoundIdLost(rec) == 0

\* rec[0]["res_id"] when the read gave a record bound to an id, else
\* nothing (0).
BoundId(rec) == IF rec # <<>> /\ rec[1].res_id # 0 THEN rec[1].res_id ELSE 0

\* A resolver without strategy 1.
Strategy1Skipped(value, cats) == [calls |-> <<>>, ids |-> <<>>, raised |-> FALSE]

\* Strategy 1, the numeric id: a search of product.category by id; the
\* domain is built with int(value), which raises before the search.
Strategy1(value, cats) ==
    IF IsDigit(value)
    THEN IF IntRaises(value)
         THEN [calls |-> <<>>, ids |-> <<>>, raised |-> TRUE]
         ELSE [calls |-> <<"cat_id">>,
               ids |-> RemoteSearch(SelectSeq(cats, LAMBDA r : r.id = IntOf(value)), 1),
               raised |-> FALSE]
    ELSE [calls |-> <<>>, ids |-> <<>>, raised |-> FALSE]

\* Strategy 2, the qualified external id: a search of ir.model.data by
\* module, name and model, and a read of the record found.
Strategy2(value, regs) ==
    IF HasDot(value)
    THEN LET ids == RemoteSearch(SelectSeq(regs,
                        LAMBDA r : /\ r.module = SplitModule(value)
                                   /\ r.name = SplitName(value)
                                   /\ r.model = CategoryModel), 1)
         IN IF ids # <<>>
            THEN [calls |-> <<"imd_full", "imd_full_read">>,
                  id |-> BoundId(RemoteRead(regs, ids))]
            ELSE [calls |-> <<"imd_full">>, id |-> 0]
    ELSE [calls |-> <<>>, id |-> 0]

\* Strategy 3, the external id alone: a search of ir.model.data by name
\* and model, and a read of the record found.
Strategy3(value, regs) ==
    LET ids == RemoteSearch(SelectSeq(regs,
                   LAMBDA r : r.name = value /\ r.model = CategoryModel), 1)
    IN IF ids # <<>>
       THEN [calls |-> <<"imd_bare", "imd_bare_read">>,
             id |-> BoundId(RemoteRead(regs, ids))]
       ELSE [calls |-> <<"imd_bare">>, id |-> 0]

\* Strategy 4, the category name: a search of product.category by name.
Strategy4(value, cats) ==
    LET ids == RemoteSearch(SelectSeq(cats, LAMBDA r : r.name = value), 1)
    IN [calls |-> <<"cat_name">>, id |-> IF ids # <<>> THEN ids[1] ELSE 0]

\* A resolver that searches by display name before anything else.
NameFirst(value, cats, regs) ==
    LET s4 == Strategy4(value, cats)
        s3 == Strategy3(value, regs)
    IN IF value = <<>> THEN [calls |-> <<>>, id |-> 0, raised |-> FALSE]
       ELSE IF s4.id # 0 THEN [calls |-> s4.calls, id |-> s4.id, raised |-> FALSE]
       ELSE [calls |-> s4.calls \o s3.calls, id |-> s3.id, raised |-> FALSE]

\* ensure_category(value) when no remote call raises: the remote calls it
\* issues, in order, the id it returns (0: None), and whether it raised
\* instead of returning.
ensure_category(value, cats, regs) ==
    LET s1 == Strategy1(value, cats)
        s2 == Strategy2(value, regs)
        s3 == Strategy3(value, regs)
        s4 == Strategy4(value, cats)
    IN IF value = <<>> THEN [calls |-> <<>>, id |-> 0, raised |-> FALSE]
       ELSE IF s1.raised THEN [calls |-> s1.calls, id |-> 0, raised |-> TRUE]
       ELSE IF s1.ids # <<>> THEN [calls |-> s1.calls, id |-> s1.ids[1], raised |-> FALSE]
       ELSE IF s2.id # 0
       THEN [calls |-> s1.calls \o s2.calls, id |-> s2.id, raised |-> FALSE]
       ELSE IF s3.id # 0
       THEN [calls |-> s1.calls \o s2.calls \o s3.calls, id |-> s3.id, raised |-> FALSE]
       ELSE [calls |-> s1.calls \o s2.calls \o s3.calls \o s4.calls, id |-> s4.id,
             raised |-> FALSE]

(* --------------------------- worker_task ------------------------------ *)

\* One slot for all threads: a module global in place of threading.local.
SharedSlot(w) == 1

\* The storage slot behind _thread_local for a worker thread: its own.
ThreadLocalSlot(w) == w

\* A worker_task that does not look at dry_run.
DryRunIgnored == FALSE

\* if dry_run: return row_index, True, "(dry-run)"
IsDryRun == dry_run

\* A constructor that does not look at the uid.
UidUnchecked(outcome) == outcome = "fault"

\* OdooClient.__init__ raises when authenticate gives no uid (and when the
\* call itself raises).
AuthFails(outcome) == outcome # "uid"

\* A skip label returned as a failure.
SkipIsNoSuccess(i, kind) ==
    [index |-> i, ok |-> kind # "skip", kind |-> kind,
     ident |-> IF kind \in {"create", "update"} THEN Ident(rows[i + 1]) ELSE <<>>,
     cause |-> "none"]

\* return row_index, True, label
OkResult(i, kind) ==
    [index |-> i, ok |-> TRUE, kind |-> kind,
     ident |-> IF kind \in {"create", "update"} THEN Ident(rows[i + 1]) ELSE <<>>,
     cause |-> "none"]

\* return row_index, False, msg
ErrResult(i, cause) ==
    [index |-> i, ok |-> FALSE, kind |-> "error", ident |-> ErrIdent(rows[i + 1]),
     cause |-> cause]

\* worker_task is over: the future of the row is done, the thread is free.
Return(w, res) ==
    /\ results' = [results EXCEPT ![wk[w].idx + 1] = res]
    /\ wk' = [wk EXCEPT ![w] = IdleWorker]

\* A worker_task without its except clause: the exception ends it and the
\* future of the row holds the exception.
Escapes(w, cause) ==
    Return(w, [index |-> wk[w].idx, ok |-> FALSE, kind |-> "raised", ident |-> <<>>,
               cause |-> cause])

\* A thread that dies on the exception and leaves the future of the row
\* without a result.
Hang(w, cause) ==
    /\ wk' = [wk EXCEPT ![w] = IdleWorker]
    /\ UNCHANGED results

\* An except clause that runs the row again.
Retry(w, cause) ==
    /\ wk' = [wk EXCEPT ![w] = [IdleWorker EXCEPT !.pc = "start", !.idx = wk[w].idx]]
    /\ UNCHANGED results

\* The except clause of worker_task: the exception becomes a failed result.
Raise(w, cause) == Return(w, ErrResult(wk[w].idx, cause))

\* The rows of this run that a failed remote call has aborted.
Aborted == { k \in 1..total : results[k].kind \in {"error", "raised"} }

\* The remote may fail one more call: the calls of the first run fail, up
\* to MaxFaults of them; the re-run meets a remote that fails none.
MayFail == run = 1 /\ Cardinality(Aborted) < MaxFaults

\* The outcomes of a remote call: it returns (FALSE) or it raises (TRUE).
Raises == IF MayFail THEN BOOLEAN ELSE {FALSE}

\* The remote calls cs are issued for row i, in order; all return, or the
\* last one has the outcome out.
Issued(cs, out) ==
    [k \in 1..Len(cs) |-> [call |-> cs[k], out |-> IF k = Len(cs) THEN out ELSE "ok"]]

Issue(i, cs, out) == calls' = [calls EXCEPT ![i + 1] = @ \o Issued(cs, out)]

\* What a step of a worker leaves alone besides wk, results, calls, the
\* importers and the product table.
rowFrame ==
    <<rows, dry_run, max_workers, categories, registry, phase, run, next_task,
      reported, ok_count, err_count, first_run>>

\* Two threads that are idle and both have, or both lack, an importer
\* differ only in their number.
Alike(v, w) ==
    /\ wk[v].pc = "idle"
    /\ wk[w].pc = "idle"
    /\ (importer[ThreadLocalSlot(v)] = NoClient) = (importer[ThreadLocalSlot(w)] = NoClient)

\* A thread of the pool takes the next task of the queue: any idle thread
\* may; of the threads that are alike, the model lets the first take it.
TakeTask(w) ==
    /\ phase = "pool"
    /\ wk[w].pc = "idle"
    /\ \A v \in Workers : v < w => ~Alike(v, w)
    /\ next_task < total
    /\ next_task' = next_task + 1
    /\ wk' = [wk EXCEPT ![w] = [IdleWorker EXCEPT !.pc = "start", !.idx = next_task]]
    /\ UNCHANGED <<rows, dry_run, max_workers, categories, registry, products, phase,
                   run, importer, clients, results, reported, ok_count, err_count,
                   calls, first_run>>

\* worker_task up to the search of product.template: the dry-run return;
\* get_thread_importer, which authenticates when the thread has no importer
\* yet; import_row up to the end of ensure_category.  None of it reads or
\* writes anything another thread writes.
BeginRow(w) ==
    LET i == wk[w].idx
        row == rows[i + 1]
        slot == ThreadLocalSlot(w)
        cat == ensure_category(CategoryValue(row), categories, registry)
    IN
    /\ wk[w].pc = "start"
    /\ IF IsDryRun
       THEN /\ Return(w, OkResult(i, "dry-run"))
            /\ UNCHANGED <<calls, importer, clients>>
       ELSE \E outcome \in (IF importer[slot] # NoClient THEN {"cached"} ELSE {"uid"})
                           \cup (IF importer[slot] = NoClient /\ MayFail
                                 THEN {"rejected", "fault"} ELSE {}) :
            \E failing \in 0..(IF MayFail THEN Len(cat.calls) ELSE 0) :
              LET auth == IF outcome = "cached" THEN <<>>
                          ELSE Issued(<<"auth">>,
                                      IF outcome = "uid" THEN "ok" ELSE outcome)
                  client == IF outcome = "cached" THEN importer[slot]
                            ELSE [by |-> w, n |-> clients[w] + 1]
              IN IF outcome # "cached" /\ AuthFails(outcome)
                 THEN /\ failing = 0
                      /\ calls' = [calls EXCEPT ![i + 1] = @ \o auth]
                      /\ Raise(w, IF outcome = "rejected" THEN "auth" ELSE "fault")
                      /\ UNCHANGED <<importer, clients>>
                 ELSE /\ IF outcome = "cached"
                         THEN UNCHANGED <<importer, clients>>
                         ELSE /\ clients' = [clients EXCEPT ![w] = @ + 1]
                              /\ importer' = [importer EXCEPT ![slot] = client]
                      /\ IF Unidentified(row)
                         THEN /\ failing = 0
                              /\ calls' = [calls EXCEPT ![i + 1] = @ \o auth]
                              /\ Return(w, OkResult(i, "skip"))
                         ELSE IF failing > 0
                         THEN /\ calls' = [calls EXCEPT ![i + 1] =
                                    @ \o auth \o Issued(SubSeq(cat.calls, 1, failing), "fault")]
                              /\ Raise(w, "fault")
                         ELSE IF cat.raised
                         THEN /\ calls' = [calls EXCEPT ![i + 1] =
                                    @ \o auth \o Issued(cat.calls, "ok")]
                              /\ Raise(w, "value")
                         ELSE /\ calls' = [calls EXCEPT ![i + 1] =
                                    @ \o auth \o Issued(cat.calls, "ok")]
                              /\ wk' = [wk EXCEPT ![w].pc = "prod_search",
                                                  ![w].client = client,
                                                  ![w].categ_id = cat.id]
                              /\ UNCHANGED results
    /\ UNCHANGED <<rowFrame, products>>

(* ----------------------- import_row: the upsert ----------------------- *)

\* search product.template by the natural key, limit 1.
ProdSearch(w) ==
    /\ wk[w].pc = "prod_search"
    /\ \E raised \in Raises :
          LET row == rows[wk[w].idx + 1]
              ids == RemoteSearch(SelectSeq(products,
                         LAMBDA r : r[NaturalKeyField(row)] = Ident(row)), 1)
          IN /\ Issue(wk[w].idx, <<"prod_search">>, IF raised THEN "fault" ELSE "ok")
             /\ IF raised THEN Raise(w, "fault")
                ELSE /\ wk' = [wk EXCEPT ![w].pc = IF ids # <<>> THEN "prod_write"
                                                   ELSE "prod_create",
                                         ![w].ids = ids]
                     /\ UNCHANGED results
    /\ UNCHANGED <<rowFrame, products, importer, clients>>

\* An upsert without its else: the write is followed by a create.
WriteThenCreate(w) ==
    /\ wk[w].pc = "prod_write"
    /\ Issue(wk[w].idx, <<"prod_write", "prod_create">>, "ok")
    /\ products' = RemoteCreate(RemoteWrite(products, <<wk[w].ids[1]>>,
                                    BuildVals(rows[wk[w].idx + 1], wk[w].categ_id)),
                                BuildVals(rows[wk[w].idx + 1], wk[w].categ_id))
    /\ Return(w, OkResult(wk[w].idx, "update"))
    /\ UNCHANGED <<rowFrame, importer, clients>>

\* write vals on the record found and return "update: ...".
ProdWrite(w) ==
    /\ wk[w].pc = "prod_write"
    /\ \E raised \in Raises :
          /\ Issue(wk[w].idx, <<"prod_write">>, IF raised THEN "fault" ELSE "ok")
          /\ IF raised THEN Raise(w, "fault") /\ UNCHANGED products
             ELSE /\ products' = RemoteWrite(products, <<wk[w].ids[1]>>,
                                     BuildVals(rows[wk[w].idx + 1], wk[w].categ_id))
                  /\ Return(w, OkResult(wk[w].idx, "update"))
    /\ UNCHANGED <<rowFrame, importer, clients>>

\* A create whose label is the one of the write.
CreateLabelledUpdate(w) ==
    /\ wk[w].pc = "prod_create"
    /\ Issue(wk[w].idx, <<"prod_create">>, "ok")
    /\ products' = RemoteCreate(products, BuildVals(rows[wk[w].idx + 1], wk[w].categ_id))
    /\ Return(w, OkResult(wk[w].idx, "update"))
    /\ UNCHANGED <<rowFrame, importer, clients>>

\* create a record from vals and return "create: ...".
ProdCreate(w) ==
    /\ wk[w].pc = "prod_create"
    /\ \E raised \in Raises :
          /\ Issue(wk[w].idx, <<"prod_create">>, IF raised THEN "fault" ELSE "ok")
          /\ IF raised THEN Raise(w, "fault") /\ UNCHANGED products
             ELSE /\ products' = RemoteCreate(products,
                                     BuildVals(rows[wk[w].idx + 1], wk[w].categ_id))
                  /\ Return(w, OkResult(wk[w].idx, "create"))
    /\ UNCHANGED <<rowFrame, importer, clients>>

(* -------------------------------- main -------------------------------- *)

\* main up to the pool: no rows is sys.exit(0), else every row becomes a
\* task and executor.map submits them all, in row order.
MainStart ==
    /\ phase = "start"
    /\ phase' = IF total = 0 THEN "exit" ELSE "pool"
    /\ UNCHANGED <<rows, dry_run, max_workers, categories, registry, products, run,
                   next_task, wk, importer, clients, results, reported, ok_count,
                   err_count, calls, first_run>>

\* The futures that are done and that the loop has not been given.
Unreported ==
    { i \in 0..(total - 1) :
        /\ results[i + 1].kind # "pending"
        /\ \A k \in 1..Len(reported) : reported[k] # i }

\* A loop over the futures as they complete: the last one that is done.
AsCompleted ==
    IF Unreported # {} THEN CHOOSE i \in Unreported : \A j \in Unreported : j <= i
    ELSE Len(reported)

\* The index of the future whose result executor.map yields next: the
\* futures are yielded in the order of the tasks.
NextYielded == Len(reported)

\* A tally that counts a failure in both counters.
TallyBoth(result) == <<1, IF result.ok THEN 0 ELSE 1>>

\* if ok: ok_count += 1 / else: err_count += 1
Tally(result) == IF result.ok THEN <<1, 0>> ELSE <<0, 1>>

\* One turn of the for loop of main: the next result, once its future is
\* done, is counted and printed; a future that holds an exception raises
\* it in main.
Report ==
    /\ phase = "pool"
    /\ Len(reported) < total
    /\ LET result == results[NextYielded + 1]
       IN /\ result.kind # "pending"
          /\ IF result.kind = "raised"
             THEN /\ phase' = "crashed"
                  /\ UNCHANGED <<reported, ok_count, err_count>>
             ELSE /\ reported' = Append(reported, result.index)
                  /\ ok_count' = ok_count + Tally(result)[1]
                  /\ err_count' = err_count + Tally(result)[2]
                  /\ UNCHANGED phase
    /\ UNCHANGED <<rows, dry_run, max_workers, categories, registry, products,
                   run, next_task, wk, importer, clients, results, calls, first_run>>

\* The loop is over, the with block has joined the pool: the summary.
Summary ==
    /\ phase = "pool"
    /\ Len(reported) = total
    /\ \A w \in Workers : wk[w].pc = "idle"
    /\ phase' = "done"
    /\ UNCHANGED <<rows, dry_run, max_workers, categories, registry, products, run,
                   next_task, wk, importer, clients, results, reported, ok_count,
                   err_count, calls, first_run>>

\* The same batch is run again, in a new process, against the remote store
\* as the first run left it.
Rerun ==
    /\ phase \in {"done", "exit"}
    /\ run = 1
    /\ run' = 2
    /\ first_run' = [kinds |-> [k \in 1..total |-> results[k].kind],
                     n_products |-> Len(products)]
    /\ phase' = "start"
    /\ next_task' = 0
    /\ wk' = [w \in Workers |-> IdleWorker]
    /\ importer' = [w \in Workers |-> NoClient]
    /\ clients' = [w \in Workers |-> 0]
    /\ results' = [k \in 1..total |-> Pending]
    /\ reported' = <<>>
    /\ ok_count' = 0
    /\ err_count' = 0
    /\ calls' = [k \in 1..total |-> <<>>]
    /\ UNCHANGED <<rows, dry_run, max_workers, categories, registry, products>>

(* ---------------------------- specifications -------------------------- *)

\* The state of a run before main has started the pool.
Fresh ==
    /\ phase = "start"
    /\ next_task = 0
    /\ wk = [w \in Workers |-> IdleWorker]
    /\ importer = [w \in Workers |-> NoClient]
    /\ clients = [w \in Workers |-> 0]
    /\ results = [k \in 1..total |-> Pending]
    /\ reported = <<>>
    /\ ok_count = 0
    /\ err_count = 0
    /\ calls = [k \in 1..total |-> <<>>]

\* Rows of the batches: no code and no name; code and name, category by
\* display name; the same code with a blank before it, category by numeric
\* id; a name alone, category by qualified external id in the second
\* category column.
BatchRows ==
    { MkRow(NaN, NaN, <<"1">>, None),
      MkRow(<<"a">>, <<"n">>, <<"x">>, None),
      MkRow(<<" ", "a">>, NaN, <<"1">>, None),
      MkRow(NaN, <<"n">>, None, <<"m", ".", "c">>) }

SeqsUpTo(S, n) == UNION { [1..k -> S] : k \in 0..n }

\* Tables get their ids by position.
WithIds(t) == [k \in 1..Len(t) |-> [f \in DOMAIN t[k] \cup {"id"} |->
                                       IF f = "id" THEN k ELSE t[k][f]]]

InitConfig(batches, pools, drys, cats, regs, prods) ==
    /\ rows \in batches
    /\ dry_run \in drys
    /\ max_workers \in pools
    /\ categories \in cats
    /\ registry \in regs
    /\ products \in prods
    /\ run = 1
    /\ first_run = [kinds |-> <<>>, n_products |-> 0]
    /\ Fresh

\* Batches of up to MaxRows rows on pools of up to MaxWorkers threads,
\* against a store with two categories, two registry records (the first
\* bound to no id) and no product.
Init ==
    InitConfig(SeqsUpTo(BatchRows, MaxRows), 1..MaxWorkers, BOOLEAN,
               { WithIds(<<[name |-> <<"x">>], [name |-> <<"y">>]>>) },
               { WithIds(<<[module |-> <<"m">>, name |-> <<"c">>,
                            model |-> CategoryModel, res_id |-> 0],
                           [module |-> <<"z">>, name |-> <<"m", ".", "c">>,
                            model |-> CategoryModel, res_id |-> 2]>>) },
               { <<>> })

\* A step of some thread of the pool.
PoolTakeTask == \E w \in Workers : TakeTask(w)
PoolBeginRow == \E w \in Workers : BeginRow(w)
PoolProdSearch == \E w \in Workers : ProdSearch(w)
PoolProdWrite == \E w \in Workers : ProdWrite(w)
PoolProdCreate == \E w \in Workers : ProdCreate(w)

Next ==
    \/ MainStart
    \/ PoolTakeTask
    \/ PoolBeginRow
    \/ PoolProdSearch
    \/ PoolProdWrite
    \/ PoolProdCreate
    \/ Report
    \/ Summary

Spec == Init /\ [][Next]_vars

\* The same with progress: every remote call returns or raises, the
\* threads and main are scheduled, so a step that can be taken is not put
\* off for ever.
InitLive ==
    InitConfig(SeqsUpTo({ MkRow(NaN, NaN, NaN, None),
                          MkRow(<<"a">>, <<"n">>, <<"x">>, None) }, MaxRows),
               1..MaxWorkers, BOOLEAN,
               { WithIds(<<[name |-> <<"x">>]>>) }, { <<>> }, { <<>> })

SpecLive == InitLive /\ [][Next]_vars /\ WF_vars(Next)

\* The batch and its re-run: batches of the rows that have a code or a
\* name, against the same store.
InitRerun ==
    InitConfig(SeqsUpTo({ r \in BatchRows : Ident(r) # <<>> }, MaxRows),
               1..MaxWorkers, {FALSE},
               { WithIds(<<[name |-> <<"x">>], [name |-> <<"y">>]>>) },
               { WithIds(<<[module |-> <<"m">>, name |-> <<"c">>,
                            model |-> CategoryModel, res_id |-> 0],
                           [module |-> <<"z">>, name |-> <<"m", ".", "c">>,
                            model |-> CategoryModel, res_id |-> 2]>>) },
               { <<>> })

NextRerun == Next \/ Rerun

SpecRerun == InitRerun /\ [][NextRerun]_vars

\* The resolver against every content of the two tables: one row with a
\* code, its category token of every shape, on one thread.
CatTokens ==
    { NaN, <<"1">>, <<"2">>, <<"0", "1">>, <<"m", ".", "c">>, <<"c">>, <<"x">>,
      <<SuperscriptTwo>> }

CatRecords == { [name |-> <<"x">>], [name |-> <<"1">>] }

RegRecords ==
    { [module |-> <<"m">>, name |-> <<"c">>, model |-> CategoryModel, res_id |-> 2],
      [module |-> <<"m">>, name |-> <<"c">>, model |-> CategoryModel, res_id |-> 0],
      [module |-> <<"z">>, name |-> <<"m", ".", "c">>, model |-> CategoryModel,
       res_id |-> 0],
      [module |-> <<"m">>, name |-> <<"1">>, model |-> CategoryModel, res_id |-> 2],
      [module |-> <<"m">>, name |-> <<"c">>, model |-> OtherModel, res_id |-> 1] }

InitCat ==
    InitConfig({ <<MkRow(<<"a">>, NaN, t, None)>> : t \in CatTokens }, {1}, {FALSE},
               { WithIds(t) : t \in SeqsUpTo(CatRecords, MaxCategories) },
               { WithIds(t) : t \in SeqsUpTo(RegRecords, MaxRegistry) },
               { <<>>,
                 WithIds(<<StoredProduct([name |-> <<"o">>,
                                          default_code |-> <<"a">>])>>) })

SpecCat == InitCat /\ [][Next]_vars

\* The resolver on tokens that name a category: a numeric one, a dotted
\* one and a plain one, against every content of the two tables.
NameTokens == { <<"2">>, <<"m", ".", "c">>, <<"x">> }

NamedCategories == { [name |-> <<"x">>], [name |-> <<"2">>], [name |-> <<"m", ".", "c">>] }

InitName ==
    InitConfig({ <<MkRow(<<"a">>, NaN, t, None)>> : t \in NameTokens }, {1}, {FALSE},
               { WithIds(t) : t \in SeqsUpTo(NamedCategories, MaxCategories) },
               { WithIds(t) : t \in SeqsUpTo(RegRecords, MaxRegistry) },
               { <<>>,
                 WithIds(<<StoredProduct([name |-> <<"o">>,
                                          default_code |-> <<"a">>])>>) })

SpecName == InitName /\ [][Next]_vars

\* The record of product.template that the rows of the value-map batches
\* update: every field has a value that no row of them gives it.
Existing ==
    [f \in ProductFields |->
        CASE f = "default_code" -> <<"a">>
          [] f \in TextFields \ {"default_code"} -> <<"o">>
          [] f \in PriceFields -> Float(50)
          [] f \in FlagFields -> TRUE
          [] f = "categ_id" -> 2]

\* One row with the code "a" and every other cell blank, absent or
\* filled, in a sheet with the first category column.
ValueRows ==
    { [default_code |-> <<"a">>, name |-> nm, cat1 |-> ct, cat2 |-> None,
       supplier_code |-> su, standard_price |-> sp, brand |-> br, barcode |-> bc,
       list_price |-> lp, available_in_pos |-> ap, purchase_ok |-> po,
       sale_ok |-> so, is_storable |-> st] :
        nm \in {NaN, <<"n">>},
        ct \in {NaN, <<"x">>},
        su \in {NaN, <<"s">>},
        sp \in {None, <<"2">>},
        br \in {None, <<"b">>},
        bc \in {NaN, <<"N", "a", "N">>, <<"7">>},
        lp \in {None, NaN, <<"0">>, <<"1", ",", "2">>},
        ap \in {NaN, <<"S", "I">>, PyTrue},
        po \in {NaN, <<"x">>},
        so \in {None, PyFalse},
        st \in {NaN, <<" ", "1">>} }

InitVals ==
    InitConfig({ <<r>> : r \in ValueRows }, {1}, {FALSE},
               { WithIds(<<[name |-> <<"x">>], [name |-> <<"y">>]>>) },
               { <<>> },
               { <<>>, WithIds(<<Existing>>) })

SpecVals == InitVals /\ [][Next]_vars

(* ------------------------------ properties --------------------------- *)

RowIds == 0..(total - 1)

Done(i) == results[i + 1].kind # "pending"

\* The names of the remote calls issued for row i, in order.
Names(i) == [k \in 1..Len(calls[i + 1]) |-> calls[i + 1][k].call]

Called(i, call) == \E k \in 1..Len(calls[i + 1]) : calls[i + 1][k].call = call

\* A remote call of row i failed.
HadFault(i) == \E k \in 1..Len(calls[i + 1]) : calls[i + 1][k].out # "ok"

\* The remote rejected the credentials when a client was constructed for
\* row i.
Rejected(i) ==
    \E k \in 1..Len(calls[i + 1]) :
        calls[i + 1][k].call = "auth" /\ calls[i + 1][k].out = "rejected"

AllReported == Len(reported) = total

\* The thread is inside import_row, blocked in a call on its client.
InRow(w) == wk[w].pc \in {"prod_search", "prod_write", "prod_create"}

\* C1: the loop of main reports the results one per row, in increasing
\* index order whatever the order the tasks complete in: the k-th report
\* is row k - 1, a reported row has returned from worker_task, and when
\* main is done all N rows have been reported.
C1_OrderedReporting ==
    /\ Len(reported) <= total
    /\ \A k \in 1..Len(reported) : reported[k] = k - 1 /\ Done(reported[k])
    /\ phase = "done" => AllReported

\* Row 1 completed (its record was created first) before row 0, and the
\* reports are row 0 then row 1.
C1_Witness ==
    /\ phase = "done"
    /\ total = 2
    /\ reported = <<0, 1>>
    /\ results[1].kind = "create" /\ results[2].kind = "create"
    /\ Len(products) = 2
    /\ DefaultCode(rows[1]) # <<>>
    /\ products[2].default_code = DefaultCode(rows[1])
    /\ products[1].default_code = <<>>
    /\ products[1].name = RowName(rows[2])

\* C2: a remote call that fails while a row is processed aborts that row
\* only: worker_task returns (index, False, message) for it, no exception
\* leaves worker_task (no future holds one, main does not crash), a row
\* with no failed call has a successful result, and every row is reported.
C2_FailureAbortsOnlyItsRow ==
    /\ phase # "crashed"
    /\ \A i \in RowIds :
          /\ results[i + 1].kind # "raised"
          /\ HadFault(i) =>
                /\ results[i + 1].index = i
                /\ ~results[i + 1].ok
                /\ results[i + 1].kind = "error"
                /\ results[i + 1].ident = ErrIdent(rows[i + 1])
          /\ ~HadFault(i) /\ Done(i) => results[i + 1].ok /\ results[i + 1].index = i
    /\ phase = "done" => AllReported

\* A call of one row failed, a later row was created or updated, and
\* both are reported.
C2_Witness ==
    /\ phase = "done"
    /\ AllReported
    /\ \E i, j \in RowIds :
          /\ i < j
          /\ \E k \in 1..Len(calls[i + 1]) :
                calls[i + 1][k].out = "fault" /\ calls[i + 1][k].call # "auth"
          /\ results[j + 1].kind \in {"create", "update"}

\* C3, as claimed: once the remote has rejected the credentials for a
\* row, no result is reported and no search, read, create or write is
\* issued for any row.
C3_AuthFailureIsFatal ==
    (\E i \in RowIds : Rejected(i)) =>
        /\ reported = <<>>
        /\ \A j \in RowIds : \A k \in 1..Len(calls[j + 1]) : calls[j + 1][k].call = "auth"

\* C3, amended: rejected credentials fail the row they were presented for
\* and nothing else: worker_task returns (index, False, message) for that
\* row, the authentication is the only remote call issued for it, main
\* does not crash and reports every row.
C3_AuthFailureFailsTheRow ==
    /\ \A i \in RowIds :
          Rejected(i) => results[i + 1] = ErrResult(i, "auth") /\ Names(i) = <<"auth">>
    /\ phase # "crashed"
    /\ phase = "done" => AllReported

\* The credentials were rejected for one row, another row was created or
\* updated, and all rows are reported.
C3_Witness ==
    /\ phase = "done"
    /\ AllReported
    /\ \E i, j \in RowIds :
          /\ Rejected(i)
          /\ reported[i + 1] = i
          /\ results[j + 1].kind \in {"create", "update"}

\* C4: in the re-run of a batch against the store the first run left (the
\* remote failing no call of the re-run), a row that reported "create" in
\* the first run issues no create and reports "update"; when no row of
\* the first run was aborted, the re-run issues no create at all and the
\* product table keeps its size.
C4_RerunUpdates ==
    run = 2 =>
        /\ \A i \in RowIds :
              first_run.kinds[i + 1] = "create" =>
                  /\ ~Called(i, "prod_create")
                  /\ Done(i) => results[i + 1].kind = "update"
        /\ (\A i \in RowIds : first_run.kinds[i + 1] # "error") =>
              /\ \A i \in RowIds : ~Called(i, "prod_create")
              /\ Len(products) = first_run.n_products

\* The re-run is over and a row that reported "create" reports "update".
C4_Witness ==
    /\ run = 2
    /\ phase = "done"
    /\ total >= 2
    /\ \E i \in RowIds :
          first_run.kinds[i + 1] = "create" /\ results[i + 1].kind = "update"

\* C5: in dry-run mode no remote call is issued for any row, no client is
\* constructed (no authentication), and every row is a success.
C5_DryRunIssuesNoCall ==
    dry_run =>
        /\ \A i \in RowIds : calls[i + 1] = <<>>
        /\ \A w \in Workers : clients[w] = 0 /\ importer[w] = NoClient
        /\ \A i \in RowIds : Done(i) => results[i + 1].ok /\ results[i + 1].kind = "dry-run"
        /\ err_count = 0
        /\ phase = "done" => ok_count = total

\* A dry run of two rows or more is over.
C5_Witness == dry_run /\ phase = "done" /\ total >= 2 /\ ok_count = total

\* C6: a thread constructs at most one client/importer pair and keeps it
\* in its thread-local storage; inside import_row a thread is on the pair
\* it constructed itself, so no two threads are in a call on one client.
C6_OneClientPerWorker ==
    /\ \A w \in Workers :
          /\ clients[w] <= 1
          /\ clients[w] = 1 => importer[w] = [by |-> w, n |-> 1]
          /\ InRow(w) => wk[w].client = [by |-> w, n |-> 1]
    /\ \A v, w \in Workers : v # w /\ InRow(v) /\ InRow(w) => wk[v].client # wk[w].client

\* Of two threads, one is in a call for a row it did not authenticate for:
\* it is on the client it constructed for an earlier row.
C6_Witness ==
    /\ max_workers >= 2
    /\ \E w \in Workers :
          /\ InRow(w)
          /\ ~Called(wk[w].idx, "auth")
          /\ wk[w].client = [by |-> w, n |-> 1]

\* C7: succeeded + failed is the number of rows reported so far, each
\* reported row is in exactly one counter (the successes in ok_count, the
\* failures in err_count), and at the summary the sum is the number of
\* rows.
C7_TallyMatchesReported ==
    /\ ok_count + err_count = Len(reported)
    /\ ok_count = Cardinality({ k \in 1..Len(reported) : results[reported[k] + 1].ok })
    /\ err_count = Cardinality({ k \in 1..Len(reported) : ~results[reported[k] + 1].ok })
    /\ phase = "done" => ok_count + err_count = total

\* A run with a success and a failure is over.
C7_Witness == phase = "done" /\ ok_count >= 1 /\ err_count >= 1

\* C8, as claimed: a row that import_row skipped is in neither counter:
\* the two counters count the reported rows that were not skipped.
C8_SkippedCountsAsNeither ==
    ok_count + err_count =
        Cardinality({ k \in 1..Len(reported) : results[reported[k] + 1].kind # "skip" })

\* C8, amended: a row with no code and no name that import_row processes
\* (no dry run, the client constructed) is skipped and counted as a
\* success: its result is (index, True, skip label), no product search,
\* create or write is issued for it, and the reported skipped rows are in
\* ok_count, not in err_count.
C8_SkippedCountsAsSuccess ==
    /\ \A i \in RowIds :
          /\ results[i + 1].kind = "skip" =>
                /\ Ident(rows[i + 1]) = <<>>
                /\ results[i + 1].ok
                /\ \A k \in 1..Len(calls[i + 1]) : calls[i + 1][k].call = "auth"
          /\ Ident(rows[i + 1]) = <<>> /\ Done(i) /\ ~dry_run /\ ~HadFault(i) =>
                results[i + 1].kind = "skip"
    /\ ok_count = Cardinality({ k \in 1..Len(reported) :
                      results[reported[k] + 1].kind \in
                          {"skip", "create", "update", "dry-run"} })
    /\ err_count = Cardinality({ k \in 1..Len(reported) :
                       results[reported[k] + 1].kind = "error" })

\* A run is over in which a skipped row was reported and counted.
C8_Witness ==
    /\ phase = "done"
    /\ err_count = 0
    /\ \E k \in 1..Len(reported) : results[reported[k] + 1].kind = "skip"

CatCallNames ==
    {"cat_id", "imd_full", "imd_full_read", "imd_bare", "imd_bare_read", "cat_name"}

\* The remote calls ensure_category issued for row i.
CatCalls(i) == SelectSeq(Names(i), LAMBDA c : c \in CatCallNames)

\* Every registry record of the category model is bound to an id.
AllBound == \A k \in 1..Len(registry) :
                registry[k].model = CategoryModel => registry[k].res_id # 0

\* C9, as claimed: ensure_category issues at most 3 remote calls.
C9_AtMostThreeCalls == \A i \in RowIds : Len(CatCalls(i)) <= 3

\* C9, amended: ensure_category issues at most 5 remote calls (one search
\* per strategy and one read per registry hit), and at most 3 when every
\* registry record it can read is bound to an id.
C9_AtMostFiveCalls ==
    \A i \in RowIds :
        /\ Len(CatCalls(i)) <= 5
        /\ AllBound => Len(CatCalls(i)) <= 3

\* A resolution of 5 calls: both registry searches hit a record bound to
\* no id.
C9_Witness ==
    \E i \in RowIds :
        CatCalls(i) = <<"imd_full", "imd_full_read", "imd_bare", "imd_bare_read", "cat_name">>

\* C10: a numeric token that is the id of a category resolves to that id
\* by strategy 1: the search by id is the only call of ensure_category,
\* whatever the registry and the category names hold.
C10_NumericIdWins ==
    \A w \in Workers :
        LET i == wk[w].idx
            value == CategoryValue(rows[i + 1])
        IN (/\ InRow(w)
            /\ IsDigit(value)
            /\ \E k \in 1..Len(categories) : categories[k].id = IntOf(value))
           => /\ wk[w].categ_id = IntOf(value)
              /\ CatCalls(i) = <<"cat_id">>

\* import_row has resolved a numeric token that is the id of a category,
\* the name of a registry record bound to another category and the name
\* of another category.
C10_Witness ==
    \E w \in Workers :
        LET value == CategoryValue(rows[wk[w].idx + 1])
        IN /\ InRow(w)
           /\ IsDigit(value)
           /\ wk[w].categ_id = IntOf(value)
           /\ \E k \in 1..Len(registry) :
                 /\ registry[k].name = value
                 /\ registry[k].model = CategoryModel
                 /\ registry[k].res_id \notin {0, IntOf(value)}
           /\ \E k \in 1..Len(categories) :
                 categories[k].name = value /\ categories[k].id # IntOf(value)

\* Where a call is in the calls ensure_category issued for row i (0: it
\* was not issued).
CatPos(i, call) ==
    IF \E k \in 1..Len(CatCalls(i)) : CatCalls(i)[k] = call
    THEN CHOOSE k \in 1..Len(CatCalls(i)) : CatCalls(i)[k] = call
    ELSE 0

\* The token is resolvable by display name only: it is the name of a
\* category, it is not the id of one, and no registry record of the
\* category model that is bound to an id has it as name or as module.name.
OnlyByName(value) ==
    /\ value # <<>>
    /\ \E k \in 1..Len(categories) : categories[k].name = value
    /\ IsDigit(value) => \A k \in 1..Len(categories) : categories[k].id # IntOf(value)
    /\ \A k \in 1..Len(registry) :
          (registry[k].model = CategoryModel /\ registry[k].res_id # 0) =>
              /\ registry[k].name # value
              /\ HasDot(value) => ~(/\ registry[k].module = SplitModule(value)
                                    /\ registry[k].name = SplitName(value))

\* C11: the display-name search is the last call of ensure_category and
\* is issued once, after the search by id (for a numeric token), the
\* search by module.name (for a dotted token) and the search by bare
\* external id, in that order; a token resolvable by display name only
\* gets the id of the category of that name from it.
C11_NameSearchIsLast ==
    /\ \A i \in RowIds :
          LET value == CategoryValue(rows[i + 1])
              cc == CatCalls(i)
          IN Called(i, "cat_name") =>
                /\ cc[Len(cc)] = "cat_name"
                /\ CatPos(i, "cat_name") = Len(cc)
                /\ CatPos(i, "imd_bare") > 0
                /\ IsDigit(value) => CatPos(i, "cat_id") = 1
                /\ HasDot(value) =>
                      /\ CatPos(i, "imd_full") > CatPos(i, "cat_id")
                      /\ CatPos(i, "imd_full") < CatPos(i, "imd_bare")
                /\ CatPos(i, "cat_id") < CatPos(i, "imd_bare")
    /\ \A w \in Workers :
          LET value == CategoryValue(rows[wk[w].idx + 1])
          IN InRow(w) /\ OnlyByName(value) =>
                /\ Called(wk[w].idx, "cat_name")
                /\ \E k \in 1..Len(categories) :
                      categories[k].name = value /\ categories[k].id = wk[w].categ_id

\* A numeric token resolved by display name after the search by id and
\* the search by external id found nothing.
C11_Witness ==
    \E w \in Workers :
        LET value == CategoryValue(rows[wk[w].idx + 1])
        IN /\ InRow(w)
           /\ IsDigit(value)
           /\ OnlyByName(value)
           /\ CatCalls(wk[w].idx) = <<"cat_id", "imd_bare", "cat_name">>
           /\ wk[w].categ_id # 0

\* The calls on product.template issued for row i, in order.
ProdCalls(i) ==
    SelectSeq(Names(i), LAMBDA c : c \in {"prod_search", "prod_write", "prod_create"})

\* The records of product.template whose code is the code of the row, or,
\* for a row without a code, whose name is the name of the row.
KeyMatches(row) ==
    { k \in 1..Len(products) :
        IF DefaultCode(row) # <<>> THEN products[k].default_code = DefaultCode(row)
        ELSE products[k].name = RowName(row) }

\* C12: for a row with a code or a name that import_row processes to its
\* return, the calls on product.template are one search by the natural
\* key and then one write ("update", the search found a record) or one
\* create ("create", it found none), never both; the write is on a record
\* that matches the key, by code when the row has a code and by name when
\* it has none; no row has more than one search.
C12_OneSearchThenWriteOrCreate ==
    /\ \A i \in RowIds :
          /\ ProdCalls(i) \in {<<>>, <<"prod_search">>, <<"prod_search", "prod_write">>,
                               <<"prod_search", "prod_create">>}
          /\ results[i + 1].kind = "update" =>
                ProdCalls(i) = <<"prod_search", "prod_write">> /\ ~HadFault(i)
          /\ results[i + 1].kind = "create" =>
                ProdCalls(i) = <<"prod_search", "prod_create">> /\ ~HadFault(i)
          /\ (Ident(rows[i + 1]) # <<>> /\ Done(i) /\ ~HadFault(i) /\ ~dry_run) =>
                results[i + 1].kind \in {"update", "create"}
    /\ \A w \in Workers :
          LET row == rows[wk[w].idx + 1]
          IN /\ wk[w].pc = "prod_write" =>
                   /\ Len(wk[w].ids) = 1
                   /\ \E k \in KeyMatches(row) : products[k].id = wk[w].ids[1]
             /\ wk[w].pc = "prod_create" =>
                   /\ wk[w].ids = <<>>
                   /\ max_workers = 1 => KeyMatches(row) = {}

\* Two rows: the first created a record, the second, which has a name and
\* no code, found it by name and updated it.
C12_Witness ==
    /\ phase = "done"
    /\ total = 2
    /\ results[1].kind = "create"
    /\ results[2].kind = "update"
    /\ DefaultCode(rows[2]) = <<>>
    /\ Len(products) = 1

\* No strategy can find a category for the token: it is blank, or it is
\* neither the id nor the name of a category and no registry record of the
\* category model that is bound to an id has it as name or as module.name.
Unresolvable(value) ==
    \/ value = <<>>
    \/ /\ \A k \in 1..Len(categories) : categories[k].name # value
       /\ (IsDigit(value) /\ ~IntRaises(value)) =>
              \A k \in 1..Len(categories) : categories[k].id # IntOf(value)
       /\ \A k \in 1..Len(registry) :
             (registry[k].model = CategoryModel /\ registry[k].res_id # 0) =>
                 /\ registry[k].name # value
                 /\ HasDot(value) => ~(/\ registry[k].module = SplitModule(value)
                                       /\ registry[k].name = SplitName(value))

\* The row went on without a category: the search of product.template was
\* issued, then the write or the create, and the row is a success.
WentOn(i) ==
    /\ results[i + 1].ok
    /\ results[i + 1].kind \in {"create", "update"}
    /\ ProdCalls(i) \in {<<"prod_search", "prod_write">>, <<"prod_search", "prod_create">>}

\* C13, as claimed: an unresolved category never blocks a row: a row with
\* a code or a name whose category token is blank or matches nothing, no
\* remote call of it failing, goes on to the search and the create or
\* write with no categ_id in vals, and is reported as a success.
C13_UnresolvedNeverBlocks ==
    /\ \A i \in RowIds :
          (/\ Ident(rows[i + 1]) # <<>>
           /\ Unresolvable(CategoryValue(rows[i + 1]))
           /\ Done(i) /\ ~HadFault(i) /\ ~dry_run)
          => WentOn(i)
    /\ \A w \in Workers :
          InRow(w) /\ Unresolvable(CategoryValue(rows[wk[w].idx + 1])) =>
              "categ_id" \notin DOMAIN BuildVals(rows[wk[w].idx + 1], wk[w].categ_id)

\* C13, where it holds: the same for a token that int() accepts whenever
\* str.isdigit() does.
C13_UnresolvedPassesWhenParsed ==
    /\ \A i \in RowIds :
          LET value == CategoryValue(rows[i + 1])
          IN (/\ Ident(rows[i + 1]) # <<>>
              /\ Unresolvable(value)
              /\ ~(IsDigit(value) /\ IntRaises(value))
              /\ Done(i) /\ ~HadFault(i) /\ ~dry_run)
             => WentOn(i)
    /\ \A w \in Workers :
          InRow(w) /\ Unresolvable(CategoryValue(rows[wk[w].idx + 1])) =>
              "categ_id" \notin DOMAIN BuildVals(rows[wk[w].idx + 1], wk[w].categ_id)

\* A row whose token all four strategies searched for in vain was created
\* with the default category.
C13_Witness ==
    \E i \in RowIds :
        /\ Len(CatCalls(i)) >= 3
        /\ Unresolvable(CategoryValue(rows[i + 1]))
        /\ results[i + 1].kind = "create"
        /\ products[Len(products)].categ_id = 0

\* The row with the token SUPERSCRIPT TWO failed with no remote call but
\* the authentication issued for it.
C13_Blocked ==
    \E i \in RowIds :
        /\ CategoryValue(rows[i + 1]) = <<SuperscriptTwo>>
        /\ results[i + 1].kind = "error"
        /\ results[i + 1].cause = "value"
        /\ Names(i) = <<"auth">>

\* The threads that are in worker_task for row i.
Holders(i) == { w \in Workers : wk[w].pc # "idle" /\ wk[w].idx = i }

\* How many times a call was issued for row i.
Count(i, call) == Len(SelectSeq(calls[i + 1], LAMBDA c : c.call = call))

\* C14: no retries: a remote call of a row that failed is the last call
\* issued for that row; a row is given to worker_task once (a task not
\* yet taken has no thread, no call and no result; a task taken is in one
\* thread or has its result, never both; at the summary all were taken);
\* and a row causes at most one authentication, one natural-key search
\* and one create or write.
C14_NoRetries ==
    /\ \A i \in RowIds :
          /\ \A k \in 1..Len(calls[i + 1]) : calls[i + 1][k].out # "ok" => k = Len(calls[i + 1])
          /\ Cardinality(Holders(i)) <= 1
          /\ i >= next_task => Holders(i) = {} /\ ~Done(i) /\ calls[i + 1] = <<>>
          /\ i < next_task => (Holders(i) = {}) = Done(i)
          /\ Count(i, "auth") <= 1
          /\ Count(i, "prod_search") <= 1
          /\ Count(i, "prod_write") + Count(i, "prod_create") <= 1
    /\ next_task <= total
    /\ phase = "done" => next_task = total

\* The search of a row failed after its category was resolved, nothing
\* followed it, and the run went on to its summary with another row
\* created.
C14_Witness ==
    /\ phase = "done"
    /\ \E i, j \in RowIds :
          /\ Len(calls[i + 1]) >= 3
          /\ calls[i + 1][Len(calls[i + 1])] = [call |-> "prod_search", out |-> "fault"]
          /\ results[i + 1].kind = "error"
          /\ results[j + 1].kind = "create"

\* The cell a field of vals comes from.
SourceCell(row, f) == IF f = "categ_id" THEN row.cat1 ELSE row[f]

\* The cell is blank: the column is not in the sheet, the cell is empty,
\* or it holds blanks only.
Blank(cell) == cell \in {NaN, None} \/ Strip(cell) = <<>>

\* C15, as claimed: vals always has the four flag keys, false for a blank
\* cell; it has the key of any other field only when the cell of the
\* field is not blank; and after an update the record keeps the value it
\* had in every field that is no flag and has a blank cell.
C15_SparseValueMap ==
    /\ \A w \in Workers :
          LET row == rows[wk[w].idx + 1]
              vals == BuildVals(row, wk[w].categ_id)
          IN InRow(w) =>
                /\ \A f \in FlagFields :
                      f \in DOMAIN vals /\ (Blank(row[f]) => vals[f] = FALSE)
                /\ \A f \in ProductFields \ FlagFields :
                      f \in DOMAIN vals => ~Blank(SourceCell(row, f))
    /\ \A i \in RowIds :
          results[i + 1].kind = "update" =>
              \A f \in ProductFields :
                  Blank(SourceCell(rows[i + 1], f)) =>
                      products[1][f] = IF f \in FlagFields THEN FALSE ELSE Existing[f]

\* C15, where it holds: the same for the fields that are no price and for
\* the prices of a sheet that has no price column.
C15_SparseButForPrices ==
    /\ \A w \in Workers :
          LET row == rows[wk[w].idx + 1]
              vals == BuildVals(row, wk[w].categ_id)
          IN InRow(w) =>
                /\ \A f \in FlagFields :
                      f \in DOMAIN vals /\ (Blank(row[f]) => vals[f] = FALSE)
                /\ \A f \in ProductFields \ FlagFields :
                      (f \in PriceFields => row[f] # NaN) =>
                          (f \in DOMAIN vals => ~Blank(SourceCell(row, f)))
    /\ \A i \in RowIds :
          results[i + 1].kind = "update" =>
              \A f \in ProductFields :
                  (/\ Blank(SourceCell(rows[i + 1], f))
                   /\ f \in PriceFields => rows[i + 1][f] # NaN) =>
                      products[1][f] = IF f \in FlagFields THEN FALSE ELSE Existing[f]

\* A row with an empty list_price cell updated the record: its price is
\* now not-a-number.
C15_BlankPriceSent ==
    \E i \in RowIds :
        /\ rows[i + 1].list_price = NaN
        /\ results[i + 1].kind = "update"
        /\ products[1].list_price = FloatNaN

\* A row with a blank name, barcode and brand and blank flags updated the
\* record: it kept its name, barcode and brand, and its flags are false.
C15_Witness ==
    \E i \in RowIds :
        /\ results[i + 1].kind = "update"
        /\ Blank(rows[i + 1].name) /\ Blank(rows[i + 1].brand)
        /\ products[1].name = Existing.name
        /\ products[1].brand = Existing.brand
        /\ Blank(rows[i + 1].purchase_ok)
        /\ ~products[1].purchase_ok

\* C16: the run ends: a batch with rows comes to the summary with all its
\* rows reported and tallied (a sheet without rows comes to its exit); a
\* report is never taken back and the summary is final, so every row is
\* reported in the end, however long the rows before it take.
C16_BatchTerminates ==
    /\ <>(IF total = 0 THEN phase = "exit"
                       ELSE phase = "done" /\ AllReported /\ ok_count + err_count = total)
    /\ [][/\ Len(reported) <= Len(reported')
          /\ SubSeq(reported', 1, Len(reported)) = reported
          /\ phase = "done" => phase' = "done"]_vars

\* Row 1 is done and waits for row 0, which is still in a call.
C16_Witness ==
    /\ phase = "pool"
    /\ total >= 2
    /\ Done(1)
    /\ ~Done(0)
    /\ reported = <<>>
    /\ \E w \in Workers : InRow(w) /\ wk[w].idx = 0

\* C17: a row with no code and no name issues no remote call on
\* product.category, ir.model.data or product.template (the only call it
\* can cause is the authentication of its thread's client), import_row
\* returns the skip label for it, and the thread that has it never comes
\* to the search, the write or the create, the steps that change the
\* remote store.
C17_SkippedRowTouchesNothing ==
    /\ \A i \in RowIds :
          Ident(rows[i + 1]) = <<>> =>
              /\ CatCalls(i) = <<>>
              /\ ProdCalls(i) = <<>>
              /\ \A k \in 1..Len(calls[i + 1]) : calls[i + 1][k].call = "auth"
              /\ (Done(i) /\ ~dry_run /\ ~HadFault(i)) => results[i + 1] = OkResult(i, "skip")
    /\ \A w \in Workers :
          (wk[w].pc # "idle" /\ Ident(rows[wk[w].idx + 1]) = <<>>) => wk[w].pc = "start"

\* A row with a category token and no code and no name was skipped on a
\* client made for an earlier row: no call at all was issued for it, and
\* the store holds what the other row created.
C17_Witness ==
    /\ phase = "done"
    /\ Len(products) = 1
    /\ \E i \in RowIds :
          /\ results[i + 1].kind = "skip"
          /\ CategoryValue(rows[i + 1]) # <<>>
          /\ calls[i + 1] = <<>>

\* The records of product.template with the code.
WithCode(code) == { k \in 1..Len(products) : products[k].default_code = code }

\* The rows of the batch with the code.
RowsWithCode(code) == { i \in RowIds : DefaultCode(rows[i + 1]) = code }

\* C18, as claimed: of the rows of a batch that have the same code, for
\* which the store had no record, one creates the record and the others
\* write on it: the store never holds two records with one code, and when
\* the run is over with no call failed, exactly one of the rows reported
\* "create" and the others "update".
C18_OneRecordPerCode ==
    \A i \in RowIds :
        LET code == DefaultCode(rows[i + 1])
            same == RowsWithCode(code)
        IN code # <<>> =>
              /\ Cardinality(WithCode(code)) <= 1
              /\ (phase = "done" /\ \A j \in same : ~HadFault(j) /\ ~dry_run) =>
                    /\ Cardinality({ j \in same : results[j + 1].kind = "create" }) = 1
                    /\ \A j \in same : results[j + 1].kind \in {"create", "update"}
                    /\ Cardinality(WithCode(code)) = 1

\* C18, where it holds: the same on a pool of one thread.
C18_OneRecordPerCodeOnOneThread == max_workers = 1 => C18_OneRecordPerCode

\* Two rows with the same code were processed by two threads, both
\* searched before either created, both reported "create", and the store
\* holds two records with the code.
C18_Duplicate ==
    /\ phase = "done"
    /\ total = 2
    /\ DefaultCode(rows[1]) = DefaultCode(rows[2])
    /\ results[1].kind = "create"
    /\ results[2].kind = "create"
    /\ Cardinality(WithCode(DefaultCode(rows[1]))) = 2

\* On one thread, the second of two rows with the same code updated the
\* record the first created.
C18_Witness ==
    /\ phase = "done"
    /\ max_workers = 1
    /\ total = 2
    /\ DefaultCode(rows[1]) = DefaultCode(rows[2])
    /\ DefaultCode(rows[1]) # <<>>
    /\ results[1].kind = "create"
    /\ results[2].kind = "update"

\* How many calls of the name returned for row i.
Completed(i, call) ==
    Len(SelectSeq(calls[i + 1], LAMBDA c : c.call = call /\ c.out = "ok"))

\* C19: what a row reports is what it did to product.template (a call
\* that raises having done nothing): a failed row has completed no create
\* and no write, a row that reports "create" exactly one create and no
\* write, a row that reports "update" exactly one write and no create; a
\* skipped or dry-run row neither; and the store holds one record per
\* completed create.
C19_ReportMatchesEffect ==
    /\ \A i \in RowIds :
          LET kind == results[i + 1].kind
          IN /\ kind = "error" =>
                   Completed(i, "prod_create") = 0 /\ Completed(i, "prod_write") = 0
             /\ kind = "create" =>
                   Completed(i, "prod_create") = 1 /\ Count(i, "prod_write") = 0
             /\ kind = "update" =>
                   Completed(i, "prod_write") = 1 /\ Count(i, "prod_create") = 0
             /\ kind \in {"skip", "dry-run"} =>
                   Count(i, "prod_create") = 0 /\ Count(i, "prod_write") = 0
             /\ Completed(i, "prod_create") = 1 => kind = "create"
             /\ Completed(i, "prod_write") = 1 => kind = "update"
    /\ Len(products) = Cardinality({ i \in RowIds : results[i + 1].kind = "create" })

\* The first row created a record, the write of the second row on that
\* record raised: the second row is reported as failed and the record is
\* as the first row made it.
C19_Witness ==
    /\ phase = "done"
    /\ total = 2
    /\ results[1].kind = "create"
    /\ results[2].kind = "error"
    /\ Count(1, "prod_write") = 1
    /\ Len(products) = 1
    /\ products[1] = RemoteCreate(<<>>, BuildVals(rows[1], products[1].categ_id))[1]

====
